---- MODULE Spec2Model ----
(***************************************************************************)
(* Model of DirectLineConversationService                                  *)
(* (src/directline_conversation_service.py): the token / conversation /    *)
(* watermark session fields and the operations that mutate them.  Every    *)
(* HTTP exchange is one step: the code up to a request is run by the       *)
(* action that issues it, the code after it by the action that receives    *)
(* the response, which is drawn from a small set of provider answers.      *)
(*                                                                         *)
(* Optional values (Python None) are sequences: None is <<>>, a present    *)
(* value x is <<x>>.  Python dicts are records; a missing key is a missing *)
(* field.                                                                  *)
(***************************************************************************)
EXTENDS Integers, Sequences, FiniteSets, TLC

\* ---------------------------------------------------------------- bounds
MaxTicks == 1         \* clock advances in one behaviour
MaxRetriesArg == 2    \* largest max_retries argument
MaxActs == 3          \* longest activity list the filter is applied to
MaxStream == 3        \* longest activity stream the provider keeps

\* ------------------------------------------------------ program constants
SafetyMargin == 300
DefaultExpiresIn == 3600
LocalUserId == "user123"

\* ---------------------------------------------------------------- values
None == <<>>
Some(x) == <<x>>
\* Python truthiness of an optional string / an optional number
Truthy(o) == o # None /\ o[1] # ""
TruthyNum(o) == o # None /\ o[1] # 0

ShortExpiresIn == 200
\* the clock advances to a time at which a default-lifetime token fetched just
\* before is still reusable, or to the first time at which it no longer is
TickDeltas == {DefaultExpiresIn - 2 * SafetyMargin, DefaultExpiresIn - SafetyMargin}
Watermarks == {Some("w1"), Some("w2")}
TokenIds == {"tok1", "tok2"}
ConvIds == {"conv1", "conv2"}
Messages == {"hi"}
RetriesArgs == (-1)..MaxRetriesArg

\* the activities a poll response is made of: the local user's message, two
\* bot messages, a bot activity with no text key and a text with no sender
ActivityPool ==
    { [type |-> "message", from |-> [id |-> LocalUserId], text |-> "hi"],
      [type |-> "message", from |-> [id |-> "bot1"], text |-> "hello"],
      [type |-> "message", from |-> [id |-> "bot1"], text |-> "welcome"],
      [type |-> "typing", from |-> [id |-> "bot1"]],
      [type |-> "event", text |-> "sys"] }

SeqsUpTo(S, n) == UNION { [1..k -> S] : k \in 0..n }
ActivityLists == SeqsUpTo(ActivityPool, MaxActs)

VARIABLES
    current_token,      \* self.current_token
    token_expires_at,   \* self.token_expires_at
    conversation_id,    \* self.conversation_id
    watermark,          \* self.watermark
    now,                \* datetime.now(timezone.utc).timestamp()
    stack,              \* the methods being executed, outermost first
    pc,                 \* "idle", or the HTTP exchange / sleep in progress
    args,               \* arguments of the public call in progress
    attempt,            \* loop variable of send_and_get_response
    send_result,        \* local send_result of send_and_get_response
    result,             \* value returned by the last finished public call
    origin,             \* the token and conversation the stored conversation
                        \* id and watermark were received under, and whether
                        \* an earlier call has posted to that conversation
    log,                \* requests and token checks of the call in progress
    polls,              \* outcome of each get_activities call of the loop
    provider,           \* the conversation's activity stream at the provider,
                        \* where one is kept
    ticks,              \* clock advances so far
    last                \* the last HTTP exchange and how it ended

vars == << current_token, token_expires_at, conversation_id, watermark, now,
           stack, pc, args, attempt, send_result, result, log, polls,
           origin, provider, ticks, last >>

\* the part of the state the methods work on, as one record
Cur ==
    [ current_token |-> current_token, token_expires_at |-> token_expires_at,
      conversation_id |-> conversation_id, watermark |-> watermark,
      stack |-> stack, pc |-> pc, args |-> args, attempt |-> attempt,
      send_result |-> send_result, result |-> result, log |-> log,
      polls |-> polls, origin |-> origin ]

\* nothing is recorded for an absent conversation id or an absent watermark
NoOrigin ==
    [conv_token |-> None, wm_conv |-> None, wm_token |-> None, posted |-> FALSE]

Recorded(m) ==
    [ conv_token |-> IF m.conversation_id # None THEN m.origin.conv_token ELSE None,
      wm_conv |-> IF m.watermark # None THEN m.origin.wm_conv ELSE None,
      wm_token |-> IF m.watermark # None THEN m.origin.wm_token ELSE None,
      posted |-> m.conversation_id # None /\ m.origin.posted ]

Assign(m) ==
    /\ current_token' = m.current_token
    /\ token_expires_at' = m.token_expires_at
    /\ conversation_id' = m.conversation_id
    /\ watermark' = m.watermark
    /\ stack' = m.stack
    /\ pc' = m.pc
    /\ args' = m.args
    /\ attempt' = m.attempt
    /\ send_result' = m.send_result
    /\ result' = m.result
    /\ log' = m.log
    /\ polls' = m.polls
    /\ origin' = Recorded(m)

Top(s) == s[Len(s)]
Pop(s) == SubSeq(s, 1, Len(s) - 1)
NoArgs == [op |-> "none"]
NoResult == [success |-> FALSE, error |-> <<"not called">>]

\* what C7 calls a reusable cache, observed when ensure_token_available is
\* called: a token is cached and the clock is before its expiry less 300 s
CachedFresh(m) ==
    /\ m.current_token # None
    /\ m.token_expires_at # None
    /\ now < m.token_expires_at[1] - 300

\* one entry of the call's log: an HTTP request (filtered: its URL carries a
\* watermark), or an ensure_token_available call (reused: it kept the token;
\* fresh: what the cache was like when it was called)
Entry(m, kind, wm, reused) ==
    [ kind |-> kind, conv |-> m.conversation_id, filtered |-> wm # None,
      reused |-> reused, fresh |-> CachedFresh(m) ]

\* an HTTP request leaves: it is logged, and the caller waits for the response
Issue(m, kind, wm) ==
    [m EXCEPT !.pc = kind, !.log = Append(@, Entry(m, kind, wm, FALSE))]

\* the outermost method returns res to the caller of the service
ReturnTop(m, res) ==
    [m EXCEPT !.stack = <<>>, !.pc = "idle", !.result = res]

\* result dicts of the failure returns
Failure(err) == [success |-> FALSE, error |-> err]
FailureStatus(err, code) == [success |-> FALSE, error |-> err, status_code |-> code]

\* dict.get(key, default) on a JSON body: a missing key gives the default
Get(body, key, default) == IF key \in DOMAIN body THEN body[key] ELSE default

RECURSIVE ensure_token_available(_)

\* ------------------------------------------------ send_and_get_response
\* (variant: the loop runs while next <= max_retries)
SagrLoopOneMore(m, next) ==
    IF next <= m.args.max_retries
    THEN [m EXCEPT !.attempt = next, !.pc = "sleep"]
    ELSE ReturnTop(m, [ success |-> FALSE, error |-> <<"no bot response">>,
                        message_sent |-> m.args.message,
                        send_result |-> m.send_result,
                        attempts |-> m.args.max_retries ])

\* (variant: the first poll is made whatever max_retries is)
SagrLoopAtLeastOnce(m, next) ==
    IF next < m.args.max_retries \/ (next = 0 /\ m.polls = <<>>)
    THEN [m EXCEPT !.attempt = next, !.pc = "sleep"]
    ELSE ReturnTop(m, [ success |-> FALSE, error |-> <<"no bot response">>,
                        message_sent |-> m.args.message,
                        send_result |-> m.send_result,
                        attempts |-> m.args.max_retries ])

\* (variant: the message is posted again before the second poll)
SagrLoopResend(m, next) ==
    IF next < m.args.max_retries
    THEN IF next = 1 /\ Cardinality({ i \in 1..Len(m.log) : m.log[i].kind = "post" }) = 1
         THEN Issue([m EXCEPT !.attempt = next, !.stack = Append(@, "send")],
                    "post", None)
         ELSE [m EXCEPT !.attempt = next, !.pc = "sleep"]
    ELSE ReturnTop(m, [ success |-> FALSE, error |-> <<"no bot response">>,
                        message_sent |-> m.args.message,
                        send_result |-> m.send_result,
                        attempts |-> m.args.max_retries ])

\* the for loop's next iteration, or the return after the loop
SagrLoop(m, next) ==
    IF next < m.args.max_retries
    THEN [m EXCEPT !.attempt = next, !.pc = "sleep"]
    ELSE ReturnTop(m, [ success |-> FALSE, error |-> <<"no bot response">>,
                        message_sent |-> m.args.message,
                        send_result |-> m.send_result,
                        attempts |-> m.args.max_retries ])

PollOutcome(get_result) ==
    IF ~get_result.success THEN "fail"
    ELSE IF Get(get_result, "bot_responses", <<>>) # <<>> THEN "bot"
    ELSE "empty"

\* (variant: the success return reports the loop index as attempts)
SagrAfterGetIndexAsAttempts(m, get_result) ==
    LET m1 == [m EXCEPT !.polls = Append(@, PollOutcome(get_result))]
        bot_responses == Get(get_result, "bot_responses", <<>>)
    IN  IF get_result.success /\ bot_responses # <<>>
        THEN ReturnTop(m1, [ success |-> TRUE,
                             message_sent |-> m.args.message,
                             bot_responses |-> bot_responses,
                             send_result |-> m.send_result,
                             get_result |-> get_result,
                             attempts |-> m.attempt ])
        ELSE SagrLoop(m1, m.attempt + 1)

\* (variant: a failed poll ends the call)
SagrAfterGetAbortOnFailure(m, get_result) ==
    LET m1 == [m EXCEPT !.polls = Append(@, PollOutcome(get_result))]
        bot_responses == Get(get_result, "bot_responses", <<>>)
    IN  IF ~get_result.success
        THEN ReturnTop(m1, get_result)
        ELSE IF bot_responses # <<>>
        THEN ReturnTop(m1, [ success |-> TRUE,
                             message_sent |-> m.args.message,
                             bot_responses |-> bot_responses,
                             send_result |-> m.send_result,
                             get_result |-> get_result,
                             attempts |-> m.attempt + 1 ])
        ELSE SagrLoop(m1, m.attempt + 1)

\* the loop body after get_activities has returned get_result
SagrAfterGet(m, get_result) ==
    LET m1 == [m EXCEPT !.polls = Append(@, PollOutcome(get_result))]
    IN  IF get_result.success
        THEN LET bot_responses == Get(get_result, "bot_responses", <<>>)
             IN  IF bot_responses # <<>>
                 THEN ReturnTop(m1, [ success |-> TRUE,
                                      message_sent |-> m.args.message,
                                      bot_responses |-> bot_responses,
                                      send_result |-> m.send_result,
                                      get_result |-> get_result,
                                      attempts |-> m.attempt + 1 ])
                 ELSE SagrLoop(m1, m.attempt + 1)
        ELSE SagrLoop(m1, m.attempt + 1)

\* (variant: the loop is entered whatever send_message returned)
SagrAfterSendUnchecked(m, res) == SagrLoop([m EXCEPT !.send_result = res], 0)

\* after send_message has returned res
SagrAfterSend(m, res) ==
    LET m1 == [m EXCEPT !.send_result = res]
    IN  IF ~res.success THEN ReturnTop(m1, res) ELSE SagrLoop(m1, 0)

\* ------------------------------------------------------- get_activities
\* get_activities returns res to its caller
RetGet(m, res) ==
    LET m1 == [m EXCEPT !.stack = Pop(@)]
    IN  IF m1.stack = <<>> THEN ReturnTop(m1, res) ELSE SagrAfterGet(m1, res)

\* the watermark argument of the get_activities call in progress
GetArg(m) == IF m.stack[1] = "get" THEN m.args.watermark ELSE None

\* the watermark query parameter of the GET
GetParam(m) ==
    IF Truthy(GetArg(m)) \/ Truthy(m.watermark)
    THEN (IF Truthy(GetArg(m)) THEN GetArg(m) ELSE m.watermark)
    ELSE None

\* (variant: the GET is issued without looking at the conversation id)
GetAfterEnsureUnchecked(m, ok) ==
    IF ~ok THEN RetGet(m, Failure(<<"token unavailable">>))
    ELSE Issue(m, "get", GetParam(m))

\* get_activities after its token check
GetAfterEnsure(m, ok) ==
    IF ~ok THEN RetGet(m, Failure(<<"token unavailable">>))
    ELSE IF ~Truthy(m.conversation_id)
    THEN RetGet(m, Failure(<<"no conversation id">>))
    ELSE Issue(m, "get", GetParam(m))

\* (variant: the local user's texts are collected too)
RECURSIVE BotResponsesAnySender(_)
BotResponsesAnySender(activities) ==
    IF activities = <<>> THEN <<>>
    ELSE LET text == Get(activities[Len(activities)], "text", "")
             before == BotResponsesAnySender(SubSeq(activities, 1, Len(activities) - 1))
         IN  IF text # "" THEN Append(before, text) ELSE before

\* (variant: only the texts that follow a message of the local user count)
RECURSIVE BotResponsesAfterOwnMessage(_)
BotResponsesAfterOwnMessage(activities) ==
    IF activities = <<>> THEN <<>>
    ELSE LET activity == activities[Len(activities)]
             from_id == Get(Get(activity, "from", [none |-> TRUE]), "id", "unknown")
             text == Get(activity, "text", "")
             earlier == SubSeq(activities, 1, Len(activities) - 1)
             before == BotResponsesAfterOwnMessage(earlier)
             follows == \E i \in 1..Len(earlier) :
                           Get(Get(earlier[i], "from", [none |-> TRUE]), "id", "unknown")
                               = LocalUserId
         IN  IF text # "" /\ from_id # LocalUserId /\ follows
             THEN Append(before, text)
             ELSE before

\* the loop that collects the bot responses of an activity list
RECURSIVE BotResponses(_)
BotResponses(activities) ==
    IF activities = <<>> THEN <<>>
    ELSE LET activity == activities[Len(activities)]
             from_id == Get(Get(activity, "from", [none |-> TRUE]), "id", "unknown")
             text == Get(activity, "text", "")
             before == BotResponses(SubSeq(activities, 1, Len(activities) - 1))
         IN  IF text # "" /\ from_id # LocalUserId
             THEN Append(before, text)
             ELSE before

\* (variant: a stored watermark is kept, only an absent one is set)
UpdateWatermarkKeepFirst(m, new_watermark) ==
    IF Truthy(new_watermark) /\ ~Truthy(m.watermark)
    THEN [m EXCEPT !.watermark = new_watermark]
    ELSE m

\* (variant: the call's watermark argument is stored when it has one)
UpdateWatermarkFromArgument(m, new_watermark) ==
    IF Truthy(GetArg(m)) THEN [m EXCEPT !.watermark = GetArg(m)]
    ELSE IF Truthy(new_watermark) THEN [m EXCEPT !.watermark = new_watermark]
    ELSE m

\* the stored watermark after a 200 response carrying new_watermark
UpdateWatermark(m, new_watermark) ==
    IF Truthy(new_watermark)
    THEN [m EXCEPT !.watermark = new_watermark,
                   !.origin.wm_conv = m.conversation_id,
                   !.origin.wm_token = m.current_token]
    ELSE m

\* the code after the GET has been answered
GetResponse(m, resp) ==
    IF resp.kind = "error" THEN RetGet(m, Failure(<<"get error">>))
    ELSE IF resp.status = 200
    THEN IF ~resp.json THEN RetGet(m, Failure(<<"get error">>))
         ELSE LET activities == Get(resp.body, "activities", <<>>)
                  new_watermark == Get(resp.body, "watermark", None)
                  m1 == UpdateWatermark(m, new_watermark)
              IN  RetGet(m1, [ success |-> TRUE,
                               activities |-> activities,
                               watermark |-> new_watermark,
                               bot_responses |-> BotResponses(activities),
                               total_activities |-> Len(activities) ])
    ELSE RetGet(m, FailureStatus(<<"get failed">>, resp.status))

get_activities(m) == ensure_token_available([m EXCEPT !.stack = Append(@, "get")])

\* --------------------------------------------------------- send_message
RetSend(m, res) ==
    LET m1 == [m EXCEPT !.stack = Pop(@)]
    IN  IF m1.stack = <<>> THEN ReturnTop(m1, res) ELSE SagrAfterSend(m1, res)

Activity(message) ==
    [ type |-> "message", from |-> [id |-> LocalUserId, name |-> "Test User"],
      text |-> message, locale |-> "ja-JP", channelId |-> "directline" ]

SendPost(m) == Issue(m, "post", None)

\* after start_conversation has returned conversation_result
SendAfterStart(m, conversation_result) ==
    IF ~conversation_result.success
    THEN RetSend(m, Failure(<<"conversation start failed">> \o conversation_result.error))
    ELSE SendPost(m)

\* (variant: the 2xx body is parsed outside the try block)
PostResponseParseUncaught(m, resp) ==
    IF resp.kind = "error" THEN RetSend(m, Failure(<<"send error">>))
    ELSE IF resp.status \in {200, 201, 202}
    THEN IF resp.content /\ ~resp.json
         THEN ReturnTop(m, [raised |-> "JSONDecodeError"])
         ELSE RetSend(m, [ success |-> TRUE,
                           status_code |-> resp.status,
                           response |-> IF resp.content THEN resp.body ELSE [empty |-> TRUE],
                           conversation_id |-> m.conversation_id,
                           activity |-> Activity(m.args.message) ])
    ELSE RetSend(m, FailureStatus(<<"send failed">>, resp.status))

\* (variant: an accepted message closes its conversation)
PostResponseDropConversation(m, resp) ==
    IF resp.kind = "error" THEN RetSend(m, Failure(<<"send error">>))
    ELSE IF resp.status \in {200, 201, 202}
    THEN IF resp.content /\ ~resp.json THEN RetSend(m, Failure(<<"send error">>))
         ELSE RetSend([m EXCEPT !.conversation_id = None, !.watermark = None],
                      [ success |-> TRUE,
                        status_code |-> resp.status,
                        response |-> IF resp.content THEN resp.body ELSE [empty |-> TRUE],
                        conversation_id |-> m.conversation_id,
                        activity |-> Activity(m.args.message) ])
    ELSE RetSend(m, FailureStatus(<<"send failed">>, resp.status))

\* (variant: a refused or failed POST gives the conversation up)
PostResponseResetOnFailure(m, resp) ==
    LET m0 == [m EXCEPT !.conversation_id = None, !.watermark = None]
    IN  IF resp.kind = "error" THEN RetSend(m0, Failure(<<"send error">>))
        ELSE IF resp.status \in {200, 201, 202}
        THEN IF resp.content /\ ~resp.json THEN RetSend(m, Failure(<<"send error">>))
             ELSE RetSend(m, [ success |-> TRUE,
                               status_code |-> resp.status,
                               response |-> IF resp.content THEN resp.body
                                            ELSE [empty |-> TRUE],
                               conversation_id |-> m.conversation_id,
                               activity |-> Activity(m.args.message) ])
        ELSE RetSend(m0, FailureStatus(<<"send failed">>, resp.status))

\* the code after the activity POST has been answered
PostResponse(m, resp) ==
    IF resp.kind = "error" THEN RetSend(m, Failure(<<"send error">>))
    ELSE IF resp.status \in {200, 201, 202}
    THEN IF resp.content /\ ~resp.json THEN RetSend(m, Failure(<<"send error">>))
         ELSE RetSend(m, [ success |-> TRUE,
                           status_code |-> resp.status,
                           response |-> IF resp.content THEN resp.body ELSE [empty |-> TRUE],
                           conversation_id |-> m.conversation_id,
                           activity |-> Activity(m.args.message) ])
    ELSE RetSend(m, FailureStatus(<<"send failed">>, resp.status))

\* --------------------------------------------------- start_conversation
RetStart(m, res) ==
    LET m1 == [m EXCEPT !.stack = Pop(@)]
    IN  IF m1.stack = <<>> THEN ReturnTop(m1, res) ELSE SendAfterStart(m1, res)

StartAfterEnsure(m, ok) ==
    IF ~ok THEN RetStart(m, Failure(<<"token unavailable">>))
    ELSE Issue(m, "conv", None)

\* (variant: the new conversation keeps the stored watermark)
ConvResponseKeepWatermark(m, resp) ==
    IF resp.kind = "error" THEN RetStart(m, Failure(<<"conversation error">>))
    ELSE IF resp.status \in {200, 201}
    THEN IF ~resp.json THEN RetStart(m, Failure(<<"conversation error">>))
         ELSE LET new_conversation_id == Get(resp.body, "conversationId", None)
              IN  IF Truthy(new_conversation_id)
                  THEN RetStart([m EXCEPT !.conversation_id = new_conversation_id,
                                          !.origin.conv_token = m.current_token,
                                          !.origin.posted = FALSE],
                                [ success |-> TRUE,
                                  conversation_id |-> new_conversation_id,
                                  conversation_data |-> resp.body ])
                  ELSE RetStart(m, Failure(<<"no conversation id returned">>))
    ELSE RetStart(m, Failure(<<"conversation failed">>))

\* the code after the conversation POST has been answered
ConvResponse(m, resp) ==
    IF resp.kind = "error" THEN RetStart(m, Failure(<<"conversation error">>))
    ELSE IF resp.status \in {200, 201}
    THEN IF ~resp.json THEN RetStart(m, Failure(<<"conversation error">>))
         ELSE LET new_conversation_id == Get(resp.body, "conversationId", None)
              IN  IF Truthy(new_conversation_id)
                  THEN RetStart([m EXCEPT !.conversation_id = new_conversation_id,
                                          !.watermark = None,
                                          !.origin.conv_token = m.current_token,
                                          !.origin.posted = FALSE],
                                [ success |-> TRUE,
                                  conversation_id |-> new_conversation_id,
                                  conversation_data |-> resp.body ])
                  ELSE RetStart(m, Failure(<<"no conversation id returned">>))
    ELSE RetStart(m, Failure(<<"conversation failed">>))

start_conversation(m) == ensure_token_available([m EXCEPT !.stack = Append(@, "start")])

\* (variant: a conversation is started for every message)
SendAfterEnsureAlwaysStart(m, ok) ==
    IF ~ok THEN RetSend(m, Failure(<<"token unavailable">>))
    ELSE start_conversation(m)

\* send_message after its token check
SendAfterEnsure(m, ok) ==
    IF ~ok THEN RetSend(m, Failure(<<"token unavailable">>))
    ELSE IF ~Truthy(m.conversation_id) THEN start_conversation(m)
    ELSE SendPost(m)

send_message(m) == ensure_token_available([m EXCEPT !.stack = Append(@, "send")])

send_and_get_response(m) == send_message([m EXCEPT !.stack = Append(@, "sagr")])

\* ----------------------------------------------- ensure_token_available
\* (variant: the callers go on whatever ensure_token_available returned)
RetEnsureIgnored(m, ok) ==
    IF m.stack = <<>> THEN ReturnTop(m, [success |-> ok])
    ELSE IF Top(m.stack) = "start" THEN StartAfterEnsure(m, TRUE)
    ELSE IF Top(m.stack) = "send" THEN SendAfterEnsure(m, TRUE)
    ELSE GetAfterEnsure(m, TRUE)

\* ensure_token_available returns ok to the method that called it
RetEnsure(m, ok) ==
    IF m.stack = <<>> THEN ReturnTop(m, [success |-> ok])
    ELSE IF Top(m.stack) = "start" THEN StartAfterEnsure(m, ok)
    ELSE IF Top(m.stack) = "send" THEN SendAfterEnsure(m, ok)
    ELSE GetAfterEnsure(m, ok)

\* (variant: the token is reused up to and including expiry less the margin)
TokenReusableInclusive(m) ==
    /\ Truthy(m.current_token)
    /\ TruthyNum(m.token_expires_at)
    /\ now <= m.token_expires_at[1] - SafetyMargin

\* the cached token exists and stays valid for more than the margin
TokenReusable(m) ==
    /\ Truthy(m.current_token)
    /\ TruthyNum(m.token_expires_at)
    /\ now < m.token_expires_at[1] - SafetyMargin

\* generate_direct_line_token up to its POST
TokenRequest(m) == Issue([m EXCEPT !.stack = Append(@, "generate")], "tok", None)

\* (variant: a refetch drops the watermark and keeps the conversation id)
EnsureKeepConversation(m) ==
    IF TokenReusable(m)
    THEN RetEnsure([m EXCEPT !.log = Append(@, Entry(m, "ensure", m.watermark, TRUE))], TRUE)
    ELSE LET m1 == [m EXCEPT !.log = Append(@, Entry(m, "ensure", m.watermark, FALSE))]
             m2 == [m1 EXCEPT !.watermark = None, !.stack = Append(@, "ensure")]
         IN  TokenRequest(m2)

\* (variant: a refetch leaves the conversation id and the watermark alone)
EnsureKeepScope(m) ==
    IF TokenReusable(m)
    THEN RetEnsure([m EXCEPT !.log = Append(@, Entry(m, "ensure", m.watermark, TRUE))], TRUE)
    ELSE LET m1 == [m EXCEPT !.log = Append(@, Entry(m, "ensure", m.watermark, FALSE))]
         IN  TokenRequest([m1 EXCEPT !.stack = Append(@, "ensure")])

ensure_token_available(m) ==
    IF TokenReusable(m)
    THEN RetEnsure([m EXCEPT !.log = Append(@, Entry(m, "ensure", m.watermark, TRUE))], TRUE)
    ELSE LET m1 == [m EXCEPT !.log = Append(@, Entry(m, "ensure", m.watermark, FALSE))]
             m2 == [m1 EXCEPT !.conversation_id = None, !.watermark = None,
                              !.stack = Append(@, "ensure")]
         IN  TokenRequest(m2)

\* ------------------------------------------- generate_direct_line_token
\* (variant: the conversation id of the token response is adopted)
StoreTokenAdoptConversation(m, token_data, expires_in) ==
    [m EXCEPT !.current_token = Get(token_data, "token", None),
              !.token_expires_at = Some(now + expires_in),
              !.conversation_id = Some(Get(token_data, "conversationId", "")),
              !.watermark = None]

\* the session fields a 200 token response leaves
StoreToken(m, token_data, expires_in) ==
    [m EXCEPT !.current_token = Get(token_data, "token", None),
              !.token_expires_at = Some(now + expires_in),
              !.conversation_id = None,
              !.watermark = None]

\* the code after the token POST has been answered: the state and the result
generate_direct_line_token(m, resp) ==
    IF resp.kind = "error" THEN [m |-> m, res |-> Failure(<<"token error">>)]
    ELSE IF resp.status = 200
    THEN IF ~resp.json THEN [m |-> m, res |-> Failure(<<"token error">>)]
         ELSE LET token_data == resp.body
                  expires_in == Get(token_data, "expires_in", Some(DefaultExpiresIn))
              IN  IF expires_in = None
                  THEN \* a JSON null: the addition raises after the token is stored
                       [ m |-> [m EXCEPT !.current_token = Get(token_data, "token", None)],
                         res |-> Failure(<<"token error">>) ]
                  ELSE [ m |-> StoreToken(m, token_data, expires_in[1]),
                         res |-> [ success |-> TRUE,
                                   token |-> Get(token_data, "token", None),
                                   expires_in |-> expires_in[1] ] ]
    ELSE [m |-> m, res |-> Failure(<<"token failed">>)]

\* the token POST has been answered: generate returns, then its caller
TokenResponse(m, resp) ==
    LET g == generate_direct_line_token(m, resp)
        m1 == [g.m EXCEPT !.stack = Pop(@)]
    IN  IF m1.stack = <<>> THEN ReturnTop(m1, g.res)
        ELSE RetEnsure([m1 EXCEPT !.stack = Pop(@)], Get(g.res, "success", FALSE))

\* ------------------------------------------------ the provider's answers
TransportError == [kind |-> "error"]
Http(status) == [kind |-> "http", status |-> status, json |-> FALSE, content |-> TRUE]
Json(status, body) ==
    [kind |-> "http", status |-> status, json |-> TRUE, content |-> TRUE, body |-> body]

\* answers to POST /tokens/generate, tok being the token a 200 may carry
TokenResponses(tok) ==
    {TransportError, Http(403), Http(200)}
    \cup { Json(200, [conversationId |-> "c", token |-> Some(tok), expires_in |-> e]) :
             e \in {Some(ShortExpiresIn), Some(DefaultExpiresIn), None} }
    \cup { Json(200, [conversationId |-> "c", token |-> Some(tok)]),
           Json(200, [conversationId |-> "c", expires_in |-> Some(DefaultExpiresIn)]) }

\* answers to POST /conversations, conv being the id a 200/201 may carry
ConvResponses(conv) ==
    {TransportError, Http(500), Http(200),
     Json(200, [streamUrl |-> "s"]),
     Json(200, [streamUrl |-> "s", conversationId |-> Some(conv)]),
     Json(201, [streamUrl |-> "s", conversationId |-> Some(conv)]),
     Json(500, [streamUrl |-> "s", conversationId |-> Some(conv)])}

\* answers to POST /conversations/{id}/activities
PostResponses ==
    {TransportError, Http(502), Http(200),
     Json(200, [id |-> "a1"]),
     [kind |-> "http", status |-> 202, json |-> FALSE, content |-> FALSE]}

\* answers to GET /conversations/{id}/activities
GetBodies(lists) ==
    { [activities |-> a, watermark |-> w] : a \in lists, w \in Watermarks }
    \cup { [activities |-> a] : a \in lists }
    \cup { [watermark |-> w] : w \in Watermarks }

GetResponses(lists) ==
    {TransportError, Http(404), Http(200)} \cup { Json(200, b) : b \in GetBodies(lists) }

\* the activity lists the provider answers a poll of the session with
UserHi == [type |-> "message", from |-> [id |-> LocalUserId], text |-> "hi"]
BotHello == [type |-> "message", from |-> [id |-> "bot1"], text |-> "hello"]
PollLists == { <<>>, <<UserHi>>, <<UserHi, BotHello>> }

\* the provider's record of a conversation: its activities in order, the
\* place of the message of the call in progress (0: not posted), and the
\* stretch of the stream the last poll was answered with
NoStream == [acts |-> <<>>, mine |-> 0, from |-> 0, to |-> 0]

\* the cursor after the k-th activity, and the place a cursor stands for
CursorNames == <<"w1", "w2", "w3", "w4", "w5">>
Cursor(k) == Some(CursorNames[k])
Position(w) ==
    IF w = None THEN 0 ELSE CHOOSE k \in 1..Len(CursorNames) : CursorNames[k] = w[1]

\* --------------------------------------------------------------- actions
NoExchange ==
    [kind |-> "none", ok |-> FALSE, wm |-> None, before |-> None, id |-> None]

Init ==
    /\ current_token = None
    /\ token_expires_at = None
    /\ conversation_id = None
    /\ watermark = None
    /\ now = 0
    /\ stack = <<>>
    /\ pc = "idle"
    /\ args = NoArgs
    /\ attempt = 0
    /\ send_result = NoResult
    /\ result = NoResult
    /\ log = <<>>
    /\ polls = <<>>
    /\ origin = NoOrigin
    /\ provider = NoStream
    /\ ticks = 0
    /\ last = NoExchange

\* a public method is called with arguments a
Begin(a) ==
    [Cur EXCEPT !.args = a, !.attempt = 0, !.send_result = NoResult,
                !.result = NoResult, !.log = <<>>, !.polls = <<>>]

\* the caller makes its next call once it is done with the last one's result
CanCall == pc = "idle" /\ args = NoArgs

Called ==
    /\ last' = NoExchange
    /\ UNCHANGED << now, ticks, provider >>

CallGenerate ==
    /\ CanCall
    /\ Assign(TokenRequest(Begin([op |-> "generate_direct_line_token"])))
    /\ Called

CallEnsure ==
    /\ CanCall
    /\ Assign(ensure_token_available(Begin([op |-> "ensure_token_available"])))
    /\ Called

CallStart ==
    /\ CanCall
    /\ Assign(start_conversation(Begin([op |-> "start_conversation"])))
    /\ Called

CallSend ==
    /\ CanCall
    /\ \E message \in Messages :
         Assign(send_message(Begin([op |-> "send_message", message |-> message])))
    /\ Called

CallGet ==
    /\ CanCall
    /\ \E w \in Watermarks \cup {None} :
         Assign(get_activities(Begin([op |-> "get_activities", watermark |-> w])))
    /\ Called

CallSendAndGet ==
    /\ CanCall
    /\ \E message \in Messages, max_retries \in RetriesArgs :
         Assign(send_and_get_response(Begin([ op |-> "send_and_get_response",
                                              message |-> message,
                                              max_retries |-> max_retries ])))
    /\ Called

\* the call that ends has sent an activity POST to the stored conversation
PostedToStored ==
    /\ conversation_id # None
    /\ \E i \in 1..Len(log) : log[i].kind = "post" /\ log[i].conv = conversation_id

\* the session once the call's result and locals are gone
Dropped == [Begin(NoArgs) EXCEPT !.origin.posted = @ \/ PostedToStored]

\* the caller is done with the value a call returned: the call's result and
\* locals are gone, the session's fields stay
Discard ==
    /\ pc = "idle"
    /\ args # NoArgs
    /\ Assign(Dropped)
    /\ last' = NoExchange
    /\ UNCHANGED << now, ticks, provider >>

\* time.sleep(wait_time) is over: the loop body calls get_activities
Wake ==
    /\ pc = "sleep"
    /\ Assign(get_activities(Cur))
    /\ last' = NoExchange
    /\ UNCHANGED << now, ticks, provider >>

\* what the last exchange was and whether its method succeeded on it
\* (wm: the watermark a poll's answer carried; id: the conversation id a
\* conversation POST's answer carried; before: the watermark stored until then)
Exchange(kind, ok, wm) ==
    [kind |-> kind, ok |-> ok, wm |-> wm, before |-> watermark, id |-> None]

TokenAnswered ==
    /\ pc = "tok"
    /\ \E tok \in TokenIds : \E resp \in TokenResponses(tok) :
         /\ Assign(TokenResponse(Cur, resp))
         /\ last' = Exchange("tok", generate_direct_line_token(Cur, resp).res.success, None)
    /\ UNCHANGED << now, ticks, provider >>

ConversationAnswered ==
    /\ pc = "conv"
    /\ \E conv \in ConvIds : \E resp \in ConvResponses(conv) :
         LET id == IF resp.kind = "http" /\ resp.json
                   THEN Get(resp.body, "conversationId", None) ELSE None
             ok == resp.kind = "http" /\ resp.status \in {200, 201} /\ id # None
         IN  /\ Assign(ConvResponse(Cur, resp))
             /\ last' = [Exchange("conv", ok, None) EXCEPT !.id = id]
    /\ UNCHANGED << now, ticks, provider >>

PostAnswered ==
    /\ pc = "post"
    /\ \E resp \in PostResponses :
         /\ Assign(PostResponse(Cur, resp))
         /\ last' = Exchange("post", resp.kind = "http" /\ resp.status \in {200, 201, 202}
                                      /\ (resp.content => resp.json), None)
    /\ UNCHANGED << now, ticks, provider >>

GetAnsweredWith(lists) ==
    /\ pc = "get"
    /\ \E resp \in GetResponses(lists) :
         LET ok == resp.kind = "http" /\ resp.status = 200 /\ resp.json
         IN  /\ Assign(GetResponse(Cur, resp))
             /\ last' = Exchange("get", ok, IF ok THEN Get(resp.body, "watermark", None)
                                                   ELSE None)
    /\ UNCHANGED << now, ticks, provider >>

GetAnswered == GetAnsweredWith(PollLists)

\* the clock advances
Tick ==
    /\ ticks < MaxTicks
    /\ \E d \in TickDeltas : now' = now + d
    /\ ticks' = ticks + 1
    /\ UNCHANGED << current_token, token_expires_at, conversation_id, watermark,
                    stack, pc, args, attempt, send_result, result, log, polls,
                    origin, provider, last >>

Next ==
    \/ CallGenerate
    \/ CallEnsure
    \/ CallStart
    \/ CallSend
    \/ CallGet
    \/ CallSendAndGet
    \/ Discard
    \/ Wake
    \/ TokenAnswered
    \/ ConversationAnswered
    \/ PostAnswered
    \/ GetAnswered
    \/ Tick

Spec == Init /\ [][Next]_vars

\* ---------------------------------------------- one poll, any activities
\* get_activities() has issued its GET on an established conversation; the
\* provider answers with any activity list of up to MaxActs activities
InitPoll ==
    /\ now = 0
    /\ provider = NoStream
    /\ ticks = 0
    /\ last = NoExchange
    /\ \E w \in Watermarks \cup {None} :
         LET m0 == [ current_token |-> Some("tok1"),
                     token_expires_at |-> Some(DefaultExpiresIn),
                     conversation_id |-> Some("conv1"),
                     watermark |-> w,
                     stack |-> <<>>, pc |-> "idle",
                     args |-> [op |-> "get_activities", watermark |-> None],
                     attempt |-> 0, send_result |-> NoResult, result |-> NoResult,
                     log |-> <<>>, polls |-> <<>>,
                     origin |-> [ conv_token |-> Some("tok1"),
                                  wm_conv |-> IF w # None THEN Some("conv1") ELSE None,
                                  wm_token |-> IF w # None THEN Some("tok1") ELSE None,
                                  posted |-> FALSE ] ]
             m == get_activities(m0)
         IN  /\ current_token = m.current_token
             /\ token_expires_at = m.token_expires_at
             /\ conversation_id = m.conversation_id
             /\ watermark = m.watermark
             /\ stack = m.stack
             /\ pc = m.pc
             /\ args = m.args
             /\ attempt = m.attempt
             /\ send_result = m.send_result
             /\ result = m.result
             /\ log = m.log
             /\ polls = m.polls
             /\ origin = m.origin

PollAnswered == GetAnsweredWith(ActivityLists)

NextPoll == PollAnswered

SpecPoll == InitPoll /\ [][NextPoll]_vars

\* ------------------------------- a provider that keeps the activity stream
\* The session is driven through send_and_get_response; the provider keeps
\* each conversation's activities in order, the bot adds its messages when it
\* pleases, and a poll is answered with the activities after the cursor it
\* carries together with the cursor of the stream's end.
StreamCall ==
    /\ CanCall
    /\ \E message \in Messages, max_retries \in RetriesArgs :
         Assign(send_and_get_response(Begin([ op |-> "send_and_get_response",
                                              message |-> message,
                                              max_retries |-> max_retries ])))
    /\ last' = NoExchange
    /\ UNCHANGED << now, ticks, provider >>

StreamDiscard ==
    /\ pc = "idle"
    /\ args # NoArgs
    /\ Assign(Dropped)
    /\ last' = NoExchange
    /\ provider' = [provider EXCEPT !.mine = 0, !.from = 0, !.to = 0]
    /\ UNCHANGED << now, ticks >>

StreamTokenAnswered == TokenAnswered

StreamWake == Wake

StreamConversationAnswered ==
    /\ pc = "conv"
    /\ \E conv \in ConvIds : \E resp \in ConvResponses(conv) :
         LET id == IF resp.kind = "http" /\ resp.json
                   THEN Get(resp.body, "conversationId", None) ELSE None
             ok == resp.kind = "http" /\ resp.status \in {200, 201} /\ id # None
         IN  /\ Assign(ConvResponse(Cur, resp))
             /\ last' = [Exchange("conv", ok, None) EXCEPT !.id = id]
             /\ provider' = IF ok THEN NoStream ELSE provider
    /\ UNCHANGED << now, ticks >>

StreamPostAnswered ==
    /\ pc = "post"
    /\ \E resp \in PostResponses :
         LET ok == resp.kind = "http" /\ resp.status \in {200, 201, 202}
         IN  /\ ok => Len(provider.acts) < MaxStream
             /\ Assign(PostResponse(Cur, resp))
             /\ last' = Exchange("post", ok /\ (resp.content => resp.json), None)
             /\ provider' = IF ok
                             THEN [provider EXCEPT !.acts = Append(@, UserHi),
                                                   !.mine = Len(provider.acts) + 1]
                             ELSE provider
    /\ UNCHANGED << now, ticks >>

\* the answer to a poll carrying the cursor after: what follows in the stream
StreamBody(after) ==
    LET end == Len(provider.acts)
        body == [activities |-> SubSeq(provider.acts, after + 1, end)]
    IN  IF end = 0 THEN body ELSE body @@ [watermark |-> Cursor(end)]

StreamGetAnswered ==
    /\ pc = "get"
    /\ LET after == Position(GetParam(Cur))
       IN  \E resp \in {TransportError, Http(404), Json(200, StreamBody(after))} :
             LET ok == resp.kind = "http" /\ resp.status = 200 /\ resp.json
             IN  /\ Assign(GetResponse(Cur, resp))
                 /\ last' = Exchange("get", ok, IF ok THEN Get(resp.body, "watermark", None)
                                                       ELSE None)
                 /\ provider' = IF ok
                                 THEN [provider EXCEPT !.from = after,
                                                       !.to = Len(provider.acts)]
                                 ELSE provider
    /\ UNCHANGED << now, ticks >>

\* the bot adds a message to the conversation
BotSays ==
    /\ conversation_id # None
    /\ Len(provider.acts) < MaxStream
    /\ provider' = [provider EXCEPT !.acts = Append(@, BotHello)]
    /\ UNCHANGED << current_token, token_expires_at, conversation_id, watermark,
                    now, stack, pc, args, attempt, send_result, result, log,
                    polls, origin, ticks, last >>

NextStream ==
    \/ StreamCall
    \/ StreamDiscard
    \/ StreamWake
    \/ StreamTokenAnswered
    \/ StreamConversationAnswered
    \/ StreamPostAnswered
    \/ StreamGetAnswered
    \/ BotSays

SpecStream == Init /\ [][NextStream]_vars

\* ================================================================ claims
InSendAndGet == args.op = "send_and_get_response"
Entries(kind) == { i \in 1..Len(log) : log[i].kind = kind }

\* C1: in send_and_get_response, the first poll that succeeds with bot
\* responses is the last poll of the call: the call has returned success with
\* attempts equal to that poll's number and with that poll's bot responses,
\* and no further GET has been issued.
C1_FirstSuccessWins ==
    InSendAndGet =>
        \A k \in 1..Len(polls) :
            polls[k] = "bot" =>
                /\ k = Len(polls)
                /\ pc = "idle"
                /\ result.success
                /\ result.attempts = k
                /\ result.get_result.success
                /\ result.bot_responses = result.get_result.bot_responses
                /\ result.bot_responses # <<>>
                /\ Cardinality(Entries("get")) <= k

\* C1 witness: the first poll of a call allowed two brought the bot's answer
C1_Witness ==
    /\ InSendAndGet /\ pc = "idle"
    /\ args.max_retries = 2
    /\ polls = <<"bot">>
    /\ result.success /\ result.attempts = 1
    /\ result.bot_responses = <<"hello">>

\* C2: when the send succeeded and no poll brought a bot response, the call
\* has made max_retries polls and returns a failure carrying
\* attempts = max_retries and the send's result.
C2_Exhaustion ==
    (InSendAndGet /\ pc = "idle" /\ send_result.success
        /\ \A k \in 1..Len(polls) : polls[k] # "bot") =>
            /\ args.max_retries >= 0 => Len(polls) = args.max_retries
            /\ Cardinality(Entries("get")) <= Len(polls)
            /\ ~result.success
            /\ result.attempts = args.max_retries
            /\ result.send_result = send_result
            /\ result.send_result.activity.text = args.message

\* C2 witness: two polls, one failed and one empty, exhausted a budget of two
C2_Witness ==
    /\ InSendAndGet /\ pc = "idle"
    /\ args.max_retries = 2
    /\ polls = <<"fail", "empty">>
    /\ ~result.success /\ result.attempts = 2
    /\ result.send_result.success

\* C3: when send_message fails inside send_and_get_response, the call returns
\* that failure and get_activities is never called.
C3_SendFailureShortCircuits ==
    (InSendAndGet /\ pc = "idle" /\ ~send_result.success) =>
        /\ result = send_result
        /\ polls = <<>>
        /\ Entries("get") = {}

\* C3 witness: the activity POST was refused with a status code
C3_Witness ==
    /\ InSendAndGet /\ pc = "idle"
    /\ ~result.success
    /\ "status_code" \in DOMAIN result
    /\ Entries("post") # {}
    /\ polls = <<>>

\* C4: a poll that fails or brings no bot response before the last attempt
\* does not end the call, the loop goes on to the next attempt; a later poll
\* with bot responses makes the call succeed.
C4_PollFailuresTolerated ==
    InSendAndGet =>
        \A k \in 1..Len(polls) :
            /\ (polls[k] \in {"fail", "empty"} /\ k < args.max_retries) =>
                   \/ Len(polls) > k
                   \/ (pc # "idle" /\ stack[1] = "sagr" /\ attempt = k)
            /\ polls[k] = "bot" => (pc = "idle" /\ result.success)

\* C4 witness: the poll after a failed poll succeeded, and so did the call
C4_Witness ==
    /\ InSendAndGet /\ pc = "idle"
    /\ polls = <<"fail", "bot">>
    /\ result.success /\ result.attempts = 2

\* C5: no GET issued by a poll attempt of send_and_get_response carries a
\* watermark.
C5_PollsUnfiltered ==
    InSendAndGet => \A i \in Entries("get") : ~log[i].filtered

\* C6: after an ensure_token_available call has fetched a new token
\* successfully, conversation_id and watermark are both absent.
C6_RefreshClearsScope ==
    (last.kind = "tok" /\ last.ok /\ Entries("ensure") # {}) =>
        /\ conversation_id = None
        /\ watermark = None

\* C6 witness: the call that refetched found a conversation and a watermark
C6_Witness ==
    /\ last.kind = "tok" /\ last.ok
    /\ \E i \in Entries("ensure") :
         ~log[i].reused /\ log[i].conv # None /\ log[i].filtered
    /\ conversation_id = None /\ watermark = None

\* C7: ensure_token_available keeps the token, issuing no request and
\* returning success, exactly when a token is cached and now < expiry - 300;
\* otherwise it issues exactly one token request.
C7_TokenReuseThreshold ==
    /\ \A i \in Entries("ensure") :
         /\ log[i].reused <=> log[i].fresh
         /\ log[i].reused => (i < Len(log) => log[i + 1].kind # "tok")
         /\ ~log[i].reused =>
                /\ i < Len(log) /\ log[i + 1].kind = "tok"
                /\ i + 1 < Len(log) => log[i + 2].kind # "tok"
    /\ Cardinality(Entries("tok")) =
           Cardinality({ i \in Entries("ensure") : ~log[i].reused })
           + (IF args.op = "generate_direct_line_token" THEN 1 ELSE 0)
    /\ (args.op = "ensure_token_available" /\ pc = "idle" /\ log[1].reused) =>
           (result.success /\ Len(log) = 1)

\* C7 witness: a cached token at the first instant it is no longer reusable
C7_Witness ==
    /\ args.op = "ensure_token_available"
    /\ current_token # None /\ token_expires_at # None
    /\ now = token_expires_at[1] - SafetyMargin
    /\ pc = "tok"
    /\ ~log[1].reused

\* C8: a send_message call that finds no conversation after its token check
\* issues one conversation POST, before its activity POST; a call that finds a
\* conversation and a reusable token issues none.
SendLogged == args.op \in {"send_message", "send_and_get_response"} /\ log # <<>>
NoConversationAtSend == log[1].conv = None \/ ~log[1].reused
TokenFailure ==
    {Failure(<<"token unavailable">>),
     Failure(<<"conversation start failed", "token unavailable">>)}

C8_LazyConversationStart ==
    SendLogged =>
        /\ Cardinality(Entries("conv")) <= 1
        /\ Cardinality(Entries("post")) <= 1
        /\ ~NoConversationAtSend => Entries("conv") = {}
        /\ NoConversationAtSend =>
               \A j \in Entries("post") : \E i \in Entries("conv") : i < j
        /\ (NoConversationAtSend /\ pc = "idle" /\ args.op = "send_message"
               /\ result \notin TokenFailure) =>
               Cardinality(Entries("conv")) = 1

\* C8 witness: the first message of a session: one conversation POST, then
\* the activity POST
C8_Witness ==
    /\ args.op = "send_message" /\ pc = "idle" /\ result.success
    /\ log[1].conv = None
    /\ Cardinality(Entries("conv")) = 1
    /\ \A j \in Entries("post") : \E i \in Entries("conv") : i < j
    /\ Entries("post") # {}

\* C9: after a successful get_activities the stored watermark is the
\* response's watermark when it carries one, and is unchanged when not.
C9_WatermarkReplace ==
    (last.kind = "get" /\ last.ok) =>
        watermark = (IF last.wm # None THEN last.wm ELSE last.before)

\* C9 witness: the second successful poll of a conversation replaced the
\* first poll's watermark
C9_Witness ==
    /\ last.kind = "get" /\ last.ok
    /\ Cardinality(Entries("get")) = 2
    /\ \A i \in Entries("get") : log[i].conv = conversation_id
    /\ last.before = Some("w1") /\ last.wm = Some("w2")
    /\ watermark = Some("w2")

\* C10: bot_responses of a successful poll is the sequence of the texts of the
\* activities that have a non-empty text and a sender other than user123, in
\* the order of the activity list.
HasText(a) == "text" \in DOMAIN a /\ a.text # ""
FromLocalUser(a) ==
    "from" \in DOMAIN a /\ "id" \in DOMAIN a.from /\ a.from.id = "user123"
IsBotText(a) == HasText(a) /\ ~FromLocalUser(a)
Texts(acts) == [i \in 1..Len(acts) |-> acts[i].text]

C10_BotResponseFiltering ==
    (pc = "idle" /\ result.success /\ "activities" \in DOMAIN result) =>
        result.bot_responses = Texts(SelectSeq(result.activities, IsBotText))

\* C10 witness: the user's message followed by two bot messages
C10_Witness ==
    /\ pc = "idle" /\ result.success
    /\ "activities" \in DOMAIN result
    /\ result.activities =
           << UserHi, BotHello,
              [type |-> "message", from |-> [id |-> "bot1"], text |-> "welcome"] >>
    /\ result.bot_responses = <<"hello", "welcome">>

\* C11: get_activities called with a usable token and no conversation fails
\* without any GET and without creating a conversation, and its failure has
\* no status code (a refused GET's failure has one).
C11_NoConversationNoPoll ==
    /\ (args.op = "get_activities" /\ pc = "idle" /\ log[1].reused
           /\ log[1].conv = None) =>
           /\ ~result.success
           /\ result.error = <<"no conversation id">>
           /\ "status_code" \notin DOMAIN result
           /\ Len(log) = 1
           /\ conversation_id = None
    /\ (args.op = "get_activities" /\ pc = "idle"
           /\ "status_code" \in DOMAIN result) =>
           (~result.success /\ Entries("get") # {})

\* C11 witness: a poll on a session that holds a token and no conversation
C11_Witness ==
    /\ args.op = "get_activities" /\ pc = "idle"
    /\ log[1].reused /\ log[1].conv = None
    /\ current_token # None
    /\ ~result.success

\* C12: when the token fetch of ensure_token_available fails, the
\* start_conversation, send_message or get_activities call that asked for the
\* token returns a failure and issues no conversation POST, activity POST or
\* GET.
TokenFetchFailed ==
    /\ last.kind = "tok" /\ ~last.ok
    /\ args.op \notin {"none", "generate_direct_line_token"}

C12_TokenFailureBlocks ==
    TokenFetchFailed =>
        /\ log[Len(log)].kind = "tok"
        /\ args.op \in {"start_conversation", "send_message", "get_activities"} =>
               /\ pc = "idle" /\ ~result.success
               /\ Entries("conv") \cup Entries("post") \cup Entries("get") = {}
        /\ args.op = "ensure_token_available" => (pc = "idle" /\ ~result.success)
        /\ InSendAndGet =>
               IF polls = <<>>
               THEN /\ pc = "idle" /\ ~result.success
                    /\ Entries("conv") \cup Entries("post") = {}
               ELSE polls[Len(polls)] = "fail" /\ pc \in {"idle", "sleep"}

\* C12 witness: send_message on a session whose token fetch was refused
C12_Witness ==
    /\ TokenFetchFailed
    /\ args.op = "send_message" /\ pc = "idle"
    /\ result = Failure(<<"token unavailable">>)
    /\ Len(log) = 2

\* C13: whatever the provider answers, each of the five methods returns a
\* dict with a success flag, and with an error message when it failed.
Methods ==
    {"generate_direct_line_token", "start_conversation", "send_message",
     "get_activities", "send_and_get_response"}

Structured(r) ==
    /\ "success" \in DOMAIN r
    /\ r.success \in BOOLEAN
    /\ ~r.success => ("error" \in DOMAIN r /\ r.error # <<>>)

C13_NoUncaughtFaults ==
    /\ (pc = "idle" /\ args.op \in Methods) => Structured(result)
    /\ (pc = "idle" /\ InSendAndGet) =>
           /\ Structured(send_result)
           /\ "get_result" \in DOMAIN result => Structured(result.get_result)

\* C13 witness: a 2xx activity POST whose body is not JSON
C13_Witness ==
    /\ pc = "idle" /\ args.op = "send_message"
    /\ last.kind = "post" /\ ~last.ok
    /\ result = Failure(<<"send error">>)

\* C14: send_and_get_response makes at most max_retries polls, none when
\* max_retries <= 0 (it then returns the exhausted failure once the send went
\* through), and it returns when every request is answered: a call in
\* progress always has an answer or a wake-up to take, each such step either
\* returns or moves the call forward, and the call's length is bounded by its
\* poll budget.
Budget == IF args.max_retries > 0 THEN args.max_retries ELSE 0

Progress == Len(log) + Len(polls) + (IF pc = "sleep" THEN 1 ELSE 0)

CallStep ==
    \/ StreamWake
    \/ StreamTokenAnswered
    \/ StreamConversationAnswered
    \/ StreamPostAnswered
    \/ StreamGetAnswered

C14_PollsBounded ==
    InSendAndGet =>
        /\ Len(polls) <= Budget
        /\ Cardinality(Entries("get")) <= Len(polls) + (IF pc = "get" THEN 1 ELSE 0)
        /\ Cardinality(Entries("get")) <= Budget
        /\ Progress <= 6 + 4 * Budget
        /\ pc # "idle" => ENABLED CallStep
        /\ (args.max_retries <= 0 /\ pc = "idle" /\ send_result.success) =>
               /\ Entries("get") = {}
               /\ ~result.success
               /\ result.error = <<"no bot response">>
               /\ result.attempts = args.max_retries

C14_StepAdvances ==
    (InSendAndGet /\ pc # "idle" /\ CallStep) =>
        (pc' = "idle" \/ Progress' > Progress)

C14_BoundedRetries == []C14_PollsBounded /\ [][C14_StepAdvances]_vars

\* C14 witness: a call with max_retries = 0 returned after its send, unpolled
C14_Witness ==
    /\ InSendAndGet /\ pc = "idle"
    /\ args.max_retries = 0
    /\ send_result.success
    /\ polls = <<>> /\ Entries("get") = {}
    /\ result.error = <<"no bot response">>

\* C15: whenever a conversation id is stored, the stored token is the token
\* the conversation was created under.
C15_ConversationTokenPairing ==
    conversation_id # None => current_token = origin.conv_token

\* the watermark was returned by a poll of the stored conversation
WatermarkOfConversation ==
    watermark # None =>
        (conversation_id # None /\ origin.wm_conv = conversation_id)

\* C16: a stored watermark implies a stored conversation id, and it was
\* returned by a poll of that conversation, not carried over from another
\* conversation or from another token.
C16_WatermarkPairing ==
    /\ WatermarkOfConversation
    /\ watermark # None => origin.wm_token = current_token

ConversationPost == log[CHOOSE i \in Entries("conv") : TRUE]

C18_StartConversationOutcome ==
    last.kind = "conv" =>
        /\ Cardinality(Entries("conv")) = 1
        /\ IF last.ok
           THEN /\ conversation_id = last.id
                /\ watermark = None
                /\ args.op = "start_conversation" =>
                       (pc = "idle" /\ result.success
                          /\ result.conversation_id = last.id)
           ELSE /\ conversation_id = ConversationPost.conv
                /\ watermark = last.before
                /\ pc = "idle" /\ ~result.success

\* C18 witness: start_conversation on a session that held a conversation and
\* a watermark was answered with a new id
C18_Witness ==
    /\ last.kind = "conv" /\ last.ok
    /\ args.op = "start_conversation" /\ pc = "idle"
    /\ ConversationPost.conv = Some("conv1")
    /\ last.before # None
    /\ conversation_id = Some("conv2") /\ watermark = None

\* C20: once ensure_token_available has returned success the session holds a
\* token, and every conversation POST, activity POST and GET leaves while a
\* token is stored and the clock is before its expiry less 300 s.
Requests == Entries("conv") \cup Entries("post") \cup Entries("get")

C20_UsableTokenAfterEnsure ==
    /\ \A i \in Requests : log[i].fresh
    /\ (args.op = "ensure_token_available" /\ pc = "idle" /\ result.success) =>
           current_token # None

\* C19: a successful send_and_get_response reports every bot text of the
\* stretch of the stream its last poll was answered with, wherever that text
\* stands with respect to the call's own message: a bot text that was in the
\* stream before the message was posted is reported as the reply.
Served == SubSeq(provider.acts, provider.from + 1, provider.to)

C19_AnyBotTextIsTheReply ==
    (InSendAndGet /\ pc = "idle" /\ result.success) =>
        /\ result.get_result.activities = Served
        /\ result.bot_responses = Texts(SelectSeq(Served, IsBotText))
        /\ result.bot_responses # <<>>
        /\ provider.mine \in 1..Len(provider.acts)

\* C19 witness: the call succeeded on a bot text that stands before the
\* call's own message in the stream
C19_Witness ==
    /\ InSendAndGet /\ pc = "idle" /\ result.success
    /\ provider.mine > 0
    /\ \E k \in (provider.from + 1)..provider.to :
         /\ k < provider.mine
         /\ IsBotText(provider.acts[k])
         /\ provider.acts[k].text = result.bot_responses[1]

\* C21: once a poll of send_and_get_response has refetched the token, the
\* conversation is gone for the rest of the call: no later request of the call
\* is a GET or a conversation POST, and the call ends with the exhausted
\* failure.
PollRefetches ==
    { i \in Entries("ensure") :
        ~log[i].reused /\ \E j \in Entries("post") : j < i }

C21_RefreshDuringPollingIsFinal ==
    (InSendAndGet /\ PollRefetches # {}) =>
        /\ conversation_id = None
        /\ watermark = None
        /\ \A i \in PollRefetches : \A j \in (i + 1)..Len(log) :
               log[j].kind \in {"ensure", "tok"}
        /\ pc \in {"idle", "sleep"} => (polls # <<>> /\ polls[Len(polls)] = "fail")
        /\ pc \in {"idle", "sleep", "tok"}
        /\ pc = "idle" =>
               /\ ~result.success
               /\ result.error = <<"no bot response">>
               /\ result.attempts = args.max_retries
               /\ Len(polls) = args.max_retries

\* C21 witness: the first of two polls fetched a new token, which was
\* granted; both polls failed without a GET and the call gave up
C21_Witness ==
    /\ InSendAndGet /\ pc = "idle"
    /\ args.max_retries = 2
    /\ polls = <<"fail", "fail">>
    /\ Entries("get") = {}
    /\ \E i \in PollRefetches :
         /\ log[i].conv # None
         /\ i + 2 <= Len(log)
         /\ log[i + 2].kind = "ensure" /\ log[i + 2].reused
    /\ current_token # None
    /\ result.error = <<"no bot response">>

\* C22: when ensure_token_available finds no reusable token and its token
\* fetch fails, conversation_id and watermark are absent afterwards and the
\* stored token and expiry are what they were before the fetch.
FailedRefresh ==
    /\ pc = "tok"
    /\ \E k \in 1..Len(stack) : stack[k] = "ensure"
    /\ last'.kind = "tok" /\ ~last'.ok

C22_StepKeepsToken ==
    FailedRefresh =>
        /\ conversation_id' = None
        /\ watermark' = None
        /\ current_token' = current_token
        /\ token_expires_at' = token_expires_at

C22_FailedRefreshDropsScope == [][C22_StepKeepsToken]_vars

\* the part of C22 about the session scope alone
FailedRefreshStepDropsScope ==
    FailedRefresh => (conversation_id' = None /\ watermark' = None)

FailedRefreshDropsScopeOnly == [][FailedRefreshStepDropsScope]_vars

\* C23: a send_and_get_response call posts its message at most once: once
\* when the token and conversation steps of its send went through, not at all
\* when one of them failed, and never again during the polls.
StoppedBeforePost ==
    /\ ~send_result.success
    /\ send_result.error[1] \in {"token unavailable", "conversation start failed"}

C23_MessagePostedOnce ==
    InSendAndGet =>
        /\ Cardinality(Entries("post")) <= 1
        /\ \A i \in Entries("post") : \A j \in Entries("get") : i < j
        /\ (polls # <<>> \/ pc \in {"sleep", "get"}) =>
               Cardinality(Entries("post")) = 1
        /\ pc = "idle" =>
               Cardinality(Entries("post")) = (IF StoppedBeforePost THEN 0 ELSE 1)

\* C23 witness: two polls, neither with a bot text, followed the single POST
C23_Witness ==
    /\ InSendAndGet /\ pc = "idle"
    /\ Len(polls) = 2
    /\ Cardinality(Entries("get")) = 2
    /\ Cardinality(Entries("post")) = 1
    /\ ~result.success

\* C24: a send_message or send_and_get_response call during which the cached
\* token stays reusable makes no conversation POST when the session holds a
\* conversation, and at most one when it holds none; its activity POST goes to
\* the stored conversation, which is the one earlier calls posted to, and the
\* stored conversation id is the same when the call ends.
Sending == args.op \in {"send_message", "send_and_get_response"}

TokenKept == \A i \in Entries("ensure") : log[i].reused

C24_ConversationReuse ==
    (Sending /\ TokenKept) =>
        /\ Cardinality(Entries("conv")) <= 1
        /\ log[1].conv # None =>
               /\ Entries("conv") = {}
               /\ conversation_id = log[1].conv
        /\ log[1].conv = None =>
               (Entries("post") # {} => Cardinality(Entries("conv")) = 1)
        /\ \A i \in Entries("post") \cup Entries("get") :
               log[i].conv # None /\ log[i].conv = conversation_id
        /\ origin.posted => (log[1].conv # None /\ conversation_id = log[1].conv)

\* C24 witness: a send_message whose token was reused posted, with no
\* conversation POST, to the conversation an earlier call had posted to
C24_Witness ==
    /\ args.op = "send_message" /\ pc = "idle" /\ TokenKept
    /\ result.success
    /\ origin.posted
    /\ Entries("conv") = {}
    /\ \E i \in Entries("post") : log[i].conv = conversation_id

\* C25: an activity POST that is refused or fails leaves the token, its
\* expiry, the conversation id and the watermark as they were; a send_message
\* that found a reusable token and a conversation returns a failure with the
\* session still on that conversation.
FailedPost == pc = "post" /\ last'.kind = "post" /\ ~last'.ok

C25_StepKeepsSession ==
    FailedPost =>
        UNCHANGED << current_token, token_expires_at, conversation_id, watermark >>

C25_AfterFailedPost ==
    (args.op = "send_message" /\ last.kind = "post" /\ ~last.ok) =>
        /\ pc = "idle" /\ ~result.success
        /\ (log[1].reused /\ log[1].conv # None) =>
               /\ Len(log) = 2
               /\ conversation_id = log[1].conv
               /\ watermark = last.before
               /\ current_token # None

C25_FailedPostKeepsSession ==
    []C25_AfterFailedPost /\ [][C25_StepKeepsSession]_vars

\* C25 witness: a send_message on a session with a reusable token, a
\* conversation and a watermark had its POST refused
C25_Witness ==
    /\ args.op = "send_message" /\ pc = "idle"
    /\ last.kind = "post" /\ ~last.ok
    /\ log[1].reused /\ log[1].conv # None
    /\ "status_code" \in DOMAIN result
    /\ conversation_id = log[1].conv
    /\ watermark # None

====
